---- MODULE Spec2Model ----
(***************************************************************************)
(* Model of src/src/components/ProductValidator.tsx: the Adobe Analytics   *)
(* product-string parser (processEventAttributes, normalizeAttributes,     *)
(* parseProduct, validateProductString) and the ProductValidator component *)
(* that re-validates the textarea content after every change.              *)
(*                                                                         *)
(* A JavaScript string is a sequence of one-character strings.  A value    *)
(* that may be undefined is a record [def, str, err]: def says whether it  *)
(* is a string, err marks the TypeError raised by calling a method on      *)
(* undefined.  A number is a record [kind, neg, mant, exp] standing for    *)
(* NaN, +-Infinity or the decimal (-1)^neg * mant * 10^exp.                *)
(***************************************************************************)
EXTENDS Integers, Sequences, FiniteSets, TLC

---------------------------------------------------------------------------
(* JavaScript strings *)

Digits == <<"0", "1", "2", "3", "4", "5", "6", "7", "8", "9">>

IsDigit(c) == \E d \in 1..Len(Digits) : Digits[d] = c

DigitVal(c) == (CHOOSE d \in 1..Len(Digits) : Digits[d] = c) - 1

\* WhiteSpace and LineTerminator characters, the ones String.prototype.trim
\* strips and StrWhiteSpaceChar covers.
WhiteSpace == {" ", "\t", "\n", "\r"}

Str(s) == [def |-> TRUE, str |-> s, err |-> FALSE]

Undefined == [def |-> FALSE, str |-> <<>>, err |-> FALSE]

TypeError == [def |-> FALSE, str |-> <<>>, err |-> TRUE]

\* s.slice(from - 1) for 1-based from
Drop(s, n) == SubSeq(s, n + 1, Len(s))

Take(s, n) == SubSeq(s, 1, n)

\* index of the first occurrence of character c in s, 0 when there is none
RECURSIVE IndexFrom(_, _, _)
IndexFrom(s, c, i) ==
    IF i > Len(s) THEN 0 ELSE IF s[i] = c THEN i ELSE IndexFrom(s, c, i + 1)

IndexOf(s, c) == IndexFrom(s, c, 1)

\* String.prototype.includes with a one-character needle
Includes(s, c) == IndexOf(s, c) # 0

\* String.prototype.split with a one-character separator: every occurrence
\* separates, so "".split(c) is [""] and "a,".split(",") is ["a", ""].
RECURSIVE Split(_, _)
Split(s, c) ==
    LET i == IndexOf(s, c)
    IN IF i = 0 THEN <<s>> ELSE <<Take(s, i - 1)>> \o Split(Drop(s, i), c)

\* String.prototype.trim
RECURSIVE TrimStart(_)
TrimStart(s) ==
    IF s # <<>> /\ s[1] \in WhiteSpace THEN TrimStart(Tail(s)) ELSE s

RECURSIVE TrimEnd(_)
TrimEnd(s) ==
    IF s # <<>> /\ s[Len(s)] \in WhiteSpace THEN TrimEnd(Take(s, Len(s) - 1)) ELSE s

Trim(s) == TrimEnd(TrimStart(s))

\* String.prototype.replace(from, to) with string arguments: only the first
\* occurrence is replaced.
ReplaceFirst(s, from, to) ==
    LET i == IndexOf(s, from)
    IN IF i = 0 THEN s ELSE Take(s, i - 1) \o <<to>> \o Drop(s, i)

\* length of the longest prefix of s made of digits
RECURSIVE DigitRun(_)
DigitRun(s) == IF s # <<>> /\ IsDigit(s[1]) THEN 1 + DigitRun(Tail(s)) ELSE 0

AllDigits(s) == \A i \in 1..Len(s) : IsDigit(s[i])

\* /^\d+$/.test(t)
MatchesDigits(t) == t # <<>> /\ AllDigits(t)

\* /^\d+[.,]\d*$/.test(t)
MatchesFraction(t) ==
    LET n == DigitRun(t)
    IN /\ n >= 1
       /\ Len(t) > n
       /\ t[n + 1] \in {".", ","}
       /\ AllDigits(Drop(t, n + 1))

\* /^\d+[.,]?\d*$/.test(t)
MatchesOptionalFraction(t) ==
    LET n == DigitRun(t)
    IN /\ n >= 1
       /\ \/ Len(t) = n
          \/ /\ t[n + 1] \in {".", ","}
             /\ AllDigits(Drop(t, n + 1))

---------------------------------------------------------------------------
(* JavaScript numbers *)

NaN == [kind |-> "nan", neg |-> FALSE, mant |-> 0, exp |-> 0]

Infinity(neg) == [kind |-> "inf", neg |-> neg, mant |-> 0, exp |-> 0]

\* the finite decimal (-1)^neg * mant * 10^exp, trailing zeros of mant moved
\* into exp so that equal values are equal records
RECURSIVE Finite(_, _, _)
Finite(neg, mant, exp) ==
    IF mant = 0 THEN [kind |-> "fin", neg |-> neg, mant |-> 0, exp |-> 0]
    ELSE IF mant % 10 = 0 THEN Finite(neg, mant \div 10, exp + 1)
    ELSE [kind |-> "fin", neg |-> neg, mant |-> mant, exp |-> exp]

Zero == Finite(FALSE, 0, 0)

isNaN(x) == x.kind = "nan"

\* x >= 0 (false for NaN, true for -0)
GreaterOrEqualZero(x) ==
    \/ x.kind = "inf" /\ ~x.neg
    \/ x.kind = "fin" /\ (x.mant = 0 \/ ~x.neg)

\* ToBoolean of a number: NaN, +0 and -0 are falsy
Truthy(x) == x.kind = "inf" \/ (x.kind = "fin" /\ x.mant # 0)

\* the value of a run of digits
RECURSIVE DigitsValue(_)
DigitsValue(s) ==
    IF s = <<>> THEN 0 ELSE 10 * DigitsValue(Take(s, Len(s) - 1)) + DigitVal(s[Len(s)])

InfinityText == <<"I", "n", "f", "i", "n", "i", "t", "y">>

StartsWith(s, p) == Len(s) >= Len(p) /\ Take(s, Len(p)) = p

\* length of the sign of a numeric literal
SignLength(t) == IF t # <<>> /\ t[1] \in {"+", "-"} THEN 1 ELSE 0

\* whether the digits of body are followed by a '.'
HasDot(body, intLen) == Len(body) > intLen /\ body[intLen + 1] = "."

\* number of digits after the '.'
FractionLength(body, intLen) ==
    IF HasDot(body, intLen) THEN DigitRun(Drop(body, intLen + 1)) ELSE 0

\* length of digits, '.', digits
MantissaLength(body, intLen) ==
    IF HasDot(body, intLen) THEN intLen + 1 + FractionLength(body, intLen)
    ELSE intLen

\* the integer written by the digits before and after the '.'
MantissaValue(body, intLen, fracLen) ==
    DigitsValue(SubSeq(body, 1, intLen)
                \o SubSeq(body, intLen + 2, intLen + 1 + fracLen))

\* length of the sign of an exponent part starting at rest
ExponentSignLength(rest) ==
    IF Len(rest) >= 2 /\ rest[1] \in {"e", "E"} /\ rest[2] \in {"+", "-"}
    THEN 1 ELSE 0

\* number of digits of the exponent part starting at rest, 0 when rest does
\* not start with one
ExponentDigits(rest) ==
    IF rest # <<>> /\ rest[1] \in {"e", "E"}
    THEN DigitRun(Drop(rest, 1 + ExponentSignLength(rest)))
    ELSE 0

\* length of the exponent part starting at rest
ExponentLength(rest) ==
    IF ExponentDigits(rest) > 0
    THEN 1 + ExponentSignLength(rest) + ExponentDigits(rest)
    ELSE 0

\* value of the exponent part starting at rest
ExponentValue(rest) ==
    IF ExponentDigits(rest) = 0 THEN 0
    ELSE IF rest[2] = "-"
    THEN 0 - DigitsValue(SubSeq(rest, 3, 2 + ExponentDigits(rest)))
    ELSE DigitsValue(SubSeq(rest, 2 + ExponentSignLength(rest),
                            1 + ExponentSignLength(rest) + ExponentDigits(rest)))

\* the unsigned literal at the start of body, as [len, value]
ScanUnsigned(neg, body, intLen) ==
    IF StartsWith(body, InfinityText)
    THEN [len |-> Len(InfinityText), value |-> Infinity(neg)]
    ELSE IF intLen + FractionLength(body, intLen) = 0
    THEN [len |-> 0, value |-> NaN]
    ELSE [len |-> MantissaLength(body, intLen)
                    + ExponentLength(Drop(body, MantissaLength(body, intLen))),
          value |-> Finite(neg,
                           MantissaValue(body, intLen, FractionLength(body, intLen)),
                           ExponentValue(Drop(body, MantissaLength(body, intLen)))
                               - FractionLength(body, intLen))]

\* The longest prefix of t that is a StrDecimalLiteral, as [len, value]; len
\* is 0 and value NaN when no prefix is one.
ScanDecimal(t) ==
    LET scan == ScanUnsigned(t # <<>> /\ t[1] = "-",
                             Drop(t, SignLength(t)),
                             DigitRun(Drop(t, SignLength(t))))
    IN IF scan.len = 0 THEN scan
       ELSE [len |-> SignLength(t) + scan.len, value |-> scan.value]

\* parseFloat(s): leading white space is skipped, then the longest prefix that
\* is a decimal literal is converted; NaN when there is none.
parseFloat(s) == ScanDecimal(TrimStart(s)).value

\* Number(v): undefined is NaN; a string is trimmed, the empty string is 0 and
\* anything but a whole decimal literal is NaN.
\* Values are exact decimals (no IEEE rounding); the 0x, 0o and 0b literals
\* are left out, no quantity field of the inputs below being one.
Number(v) ==
    IF ~v.def THEN NaN
    ELSE LET t == Trim(v.str)
             scan == ScanDecimal(t)
         IN IF t = <<>> THEN Zero
            ELSE IF scan.len = Len(t) THEN scan.value ELSE NaN

---------------------------------------------------------------------------
(* Attribute lists: lines 8-19 *)

\* const [key, value] = event.split('='); return { [key]: value }
\* The second element of the split is the value; further elements are dropped.
EventEntry(event) ==
    LET kv == Split(event, "=")
    IN [key |-> kv[1],
        value |-> IF Len(kv) >= 2 THEN Str(kv[2]) ELSE Undefined]

\* processEventAttributes: undefined (def = FALSE) unless the argument is a
\* string that includes '|'; otherwise one entry per '|'-separated piece.
processEventAttributes(eventAttribute) ==
    IF ~eventAttribute.def \/ ~Includes(eventAttribute.str, "|")
    THEN [def |-> FALSE, list |-> <<>>]
    ELSE LET pieces == Split(eventAttribute.str, "|")
         IN [def |-> TRUE,
             list |-> [i \in 1..Len(pieces) |-> EventEntry(pieces[i])]]

\* normalizeAttributes: raw ? processEventAttributes(raw) : [], then ?? []
normalizeAttributes(raw) ==
    LET result == IF raw.def /\ raw.str # <<>>
                  THEN processEventAttributes(raw)
                  ELSE [def |-> TRUE, list |-> <<>>]
    IN IF result.def THEN result.list ELSE <<>>

---------------------------------------------------------------------------
(* parseProduct: lines 31-50 *)

\* the i-th element of the destructured array, undefined past its end
Element(parts, i) == IF i <= Len(parts) THEN Str(parts[i]) ELSE Undefined

\* v.replace(',', '.'): a TypeError when v is undefined
Replace(v) == IF v.def THEN Str(ReplaceFirst(v.str, ",", ".")) ELSE TypeError

\* v.trim(): a TypeError when v is undefined
TrimOf(v) == IF v.def THEN Str(Trim(v.str)) ELSE TypeError

\* ToBoolean of a string-or-undefined value
TruthyStr(v) == v.def /\ v.str # <<>>

\* variant: price.replace(',', '.') without the optional chaining
UnguardedReplace(price) == Replace(price)

\* price?.replace(',', '.')
OptionalReplace(price) == IF price.def THEN Replace(price) ELSE Undefined

\* item && item.trim()
ItemAndTrim(item) == IF TruthyStr(item) THEN TrimOf(item) ELSE item

\* v || fallback, for strings
OrElse(v, fallback) == IF TruthyStr(v) THEN v.str ELSE fallback

\* variants: the bound off by one either way
hasMinimumPartsThree(parts) == Len(parts) >= 3

hasMinimumPartsFive(parts) == Len(parts) > 4

hasMinimumParts(parts) == Len(parts) >= 4

hasValidItem(item) == TruthyStr(ItemAndTrim(item))

parsedPrice(price) == parseFloat(OrElse(OptionalReplace(price), <<"0">>))

\* variant: parsedPrice > 0
isValidPricePositive(price) ==
    LET parsed == parsedPrice(price)
    IN ~isNaN(parsed) /\ GreaterOrEqualZero(parsed) /\ Truthy(parsed)

isValidPrice(price) ==
    LET parsed == parsedPrice(price)
    IN ~isNaN(parsed) /\ GreaterOrEqualZero(parsed)

\* Number(quantity) || 0
QuantityOf(quantity) ==
    LET n == Number(quantity) IN IF Truthy(n) THEN n ELSE Zero

parseProduct(product) ==
    LET parts     == Split(product, ";")
        category  == Element(parts, 1)
        item      == Element(parts, 2)
        quantity  == Element(parts, 3)
        price     == Element(parts, 4)
        rawEvents == Element(parts, 5)
        rawEvars  == Element(parts, 6)
    IN [category |-> OrElse(category, <<>>),
        item     |-> OrElse(item, <<>>),
        quantity |-> QuantityOf(quantity),
        price    |-> parsedPrice(price),
        events   |-> normalizeAttributes(rawEvents),
        evars    |-> normalizeAttributes(rawEvars),
        isValid  |-> hasMinimumParts(parts) /\ hasValidItem(item)
                        /\ isValidPrice(price)]

\* whether evaluating parseProduct(product) raises: a method was called on
\* undefined
parseProductThrows(product) ==
    LET parts == Split(product, ";")
    IN \/ ItemAndTrim(Element(parts, 2)).err
       \/ OptionalReplace(Element(parts, 4)).err

---------------------------------------------------------------------------
(* validateProductString: lines 52-84 *)

\* variant: the emptiness test without the trim
IsBlankUntrimmed(s) == ~s.def \/ s.str = <<>>

\* typeof s !== 'string' || !s.trim()
IsBlank(s) == ~s.def \/ Trim(s.str) = <<>>

rawProducts(s) == Split(s.str, ",")

\* rawProducts.map(parseProduct)
ParsedProducts(s) ==
    LET segments == rawProducts(s)
    IN [i \in 1..Len(segments) |-> parseProduct(segments[i])]

\* variant: only the first of the two tests
CategoryIsFraction(category) ==
    category # <<>> /\ MatchesFraction(Trim(category))

\* variant: the two tests on the untrimmed category
CategoryUntrimmed(category) ==
    /\ category # <<>>
    /\ \/ MatchesFraction(category)
       \/ MatchesDigits(category)

\* the two tests of the forEach at lines 61-72 on one product's category
CategoryLooksLikePrice(category) ==
    /\ category # <<>>
    /\ \/ MatchesFraction(Trim(category))
       \/ MatchesDigits(Trim(category))

\* the value of the local hasCascadingError after the forEach; every time it
\* is set a console.warn is emitted
hasCascadingError(s) ==
    /\ ~IsBlank(s)
    /\ LET products == ParsedProducts(s)
       IN \E i \in 1..Len(products) :
              CategoryLooksLikePrice(products[i].category)

\* lines 75-81: every valid product is made invalid when flag is set
Cascade(products, flag) ==
    IF flag
    THEN [i \in 1..Len(products) |-> [products[i] EXCEPT !.isValid = FALSE]]
    ELSE products

validateProductString(s) ==
    IF IsBlank(s) THEN <<>>
    ELSE Cascade(ParsedProducts(s), hasCascadingError(s))

validateProductStringThrows(s) ==
    /\ ~IsBlank(s)
    /\ LET segments == rawProducts(s)
       IN \E i \in 1..Len(segments) : parseProductThrows(segments[i])

---------------------------------------------------------------------------
(* Inputs *)

\* the initial textarea content, line 88:
\* Example category 1;Example product 1;1;3.50,Example category 2;Example product 2;1;5.99
DefaultProdString ==
    <<"E", "x", "a", "m", "p", "l", "e", " ", "c", "a", "t", "e", "g", "o",
      "r", "y", " ", "1", ";", "E", "x", "a", "m", "p", "l", "e", " ", "p",
      "r", "o", "d", "u", "c", "t", " ", "1", ";", "1", ";", "3", ".", "5",
      "0", ",", "E", "x", "a", "m", "p", "l", "e", " ", "c", "a", "t", "e",
      "g", "o", "r", "y", " ", "2", ";", "E", "x", "a", "m", "p", "l", "e",
      " ", "p", "r", "o", "d", "u", "c", "t", " ", "2", ";", "1", ";", "5",
      ".", "9", "9">>

\* the example of README.md, line 20:
\* Example category;Example product;1;3.50;event1=4.99|eVar1=Value1,Another category;Another product;2;5.99
ReadmeExample ==
    <<"E", "x", "a", "m", "p", "l", "e", " ", "c", "a", "t", "e", "g", "o",
      "r", "y", ";", "E", "x", "a", "m", "p", "l", "e", " ", "p", "r", "o",
      "d", "u", "c", "t", ";", "1", ";", "3", ".", "5", "0", ";", "e", "v",
      "e", "n", "t", "1", "=", "4", ".", "9", "9", "|", "e", "V", "a", "r",
      "1", "=", "V", "a", "l", "u", "e", "1", ",", "A", "n", "o", "t", "h",
      "e", "r", " ", "c", "a", "t", "e", "g", "o", "r", "y", ";", "A", "n",
      "o", "t", "h", "e", "r", " ", "p", "r", "o", "d", "u", "c", "t", ";",
      "2", ";", "5", ".", "9", "9">>

\* a price written with a comma decimal separator:
\* Cat;Name;1;3,50
CommaPrice ==
    <<"C", "a", "t", ";", "N", "a", "m", "e", ";", "1", ";", "3", ",", "5",
      "0">>

\* a comma price followed by further fields and another product:
\* Cat;Name;1;3,50;e=1|f,B;Nm;2;4
CommaPriceMiddle ==
    <<"C", "a", "t", ";", "N", "a", "m", "e", ";", "1", ";", "3", ",", "5",
      "0", ";", "e", "=", "1", "|", "f", ",", "B", ";", "N", "m", ";", "2",
      ";", "4">>

\* an empty item name:
\* Cat;;1;5.00
EmptyName ==
    <<"C", "a", "t", ";", ";", "1", ";", "5", ".", "0", "0">>

\* a segment of three fields:
\* Cat;Name;1
ThreeFields ==
    <<"C", "a", "t", ";", "N", "a", "m", "e", ";", "1">>

\* four fields, the price field empty:
\* Cat;Name;1;
EmptyPrice ==
    <<"C", "a", "t", ";", "N", "a", "m", "e", ";", "1", ";">>

\* an all-digit category:
\* 12345;Shoe;1;9.99
NumericCategory ==
    <<"1", "2", "3", "4", "5", ";", "S", "h", "o", "e", ";", "1", ";", "9",
      ".", "9", "9">>

\* seven fields, then a one-field segment:
\* C;N;2;9.5;e=1|f=2=3|g;v=a|;x|y,Z
SevenFields ==
    <<"C", ";", "N", ";", "2", ";", "9", ".", "5", ";", "e", "=", "1", "|",
      "f", "=", "2", "=", "3", "|", "g", ";", "v", "=", "a", "|", ";", "x",
      "|", "y", ",", "Z">>

\* attribute fields without '|':
\* C;N;1;2;event1=1;eVar1=Value1
SingleAttribute ==
    <<"C", ";", "N", ";", "1", ";", "2", ";", "e", "v", "e", "n", "t", "1",
      "=", "1", ";", "e", "V", "a", "r", "1", "=", "V", "a", "l", "u", "e",
      "1">>

\* a negative price:
\* Cat;Name;1;-5
NegativePrice ==
    <<"C", "a", "t", ";", "N", "a", "m", "e", ";", "1", ";", "-", "5">>

\* a price of zero:
\* Gift;Sample;1;0
FreeProduct ==
    <<"G", "i", "f", "t", ";", "S", "a", "m", "p", "l", "e", ";", "1", ";",
      "0">>

\* a category of digits, a dot and digits:
\* 12.5;Shoe;1;9.99
FractionCategory ==
    <<"1", "2", ".", "5", ";", "S", "h", "o", "e", ";", "1", ";", "9", ".",
      "9", "9">>

\* white space around every field, the category digits once trimmed:
\*  7 ; Name ; 1 ; 3.5 
PaddedFields ==
    <<" ", "7", " ", ";", " ", "N", "a", "m", "e", " ", ";", " ", "1", " ",
      ";", " ", "3", ".", "5", " ">>

\* a non-numeric quantity and a price with trailing text:
\* Cat;Name;x;3abc,Cat;Name;1;abc
LenientPrice ==
    <<"C", "a", "t", ";", "N", "a", "m", "e", ";", "x", ";", "3", "a", "b",
      "c", ",", "C", "a", "t", ";", "N", "a", "m", "e", ";", "1", ";", "a",
      "b", "c">>

\* delimiters only:
\* ,;|=;=|,;;;;|;=
DelimitersOnly ==
    <<",", ";", "|", "=", ";", "=", "|", ",", ";", ";", ";", ";", "|", ";",
      "=">>

Examples ==
    {DefaultProdString,
     ReadmeExample,
     CommaPrice,
     CommaPriceMiddle,
     EmptyName,
     ThreeFields,
     EmptyPrice,
     NumericCategory,
     SevenFields,
     SingleAttribute,
     NegativePrice,
     FreeProduct,
     FractionCategory,
     PaddedFields,
     LenientPrice,
     DelimitersOnly}

\* longest content built by typing one character at a time
MaxLen == 6

\* the characters typed one at a time
Alphabet == {",", ";", "1", "a", " "}

\* longest attribute field given to the normalizer on its own
MaxAttrLen == 5

AttrAlphabet == {"|", "=", "a", "1"}

\* every sequence over alphabet of length at most n
StringsUpTo(alphabet, n) == UNION {[1..k -> alphabet] : k \in 0..n}

\* eVar1=Value1
SingleEntry ==
    <<"e", "V", "a", "r", "1", "=", "V", "a", "l", "u", "e", "1">>

\* event1=4.99|event2=1
TwoEvents ==
    <<"e", "v", "e", "n", "t", "1", "=", "4", ".", "9", "9", "|", "e", "v",
      "e", "n", "t", "2", "=", "1">>

AttrInputs ==
    {Undefined, Str(SingleEntry), Str(TwoEvents)}
        \cup {Str(s) : s \in StringsUpTo(AttrAlphabet, MaxAttrLen)}

---------------------------------------------------------------------------
(* The ProductValidator component: lines 86-171 *)

VARIABLES
    prodString,     \* useState: the textarea content
    validation,     \* useState: the products of the last validation
    isStringValid,  \* useState: whole-string validity
    warned,         \* whether the last validation emitted a console.warn
    threw,          \* whether the last validation raised an error
    effectPending,  \* prodString changed and the effect has not run yet
    raw,            \* an attribute field handed to normalizeAttributes
    attributes,     \* the list normalizeAttributes returned for raw
    normalized      \* whether normalizeAttributes has been applied to raw

vars == <<prodString, validation, isStringValid, warned, threw, effectPending,
          raw, attributes, normalized>>

componentVars == <<prodString, validation, isStringValid, warned, threw,
                   effectPending>>

attrVars == <<raw, attributes, normalized>>

\* variant: validationResult.some(p => p.isValid)
SomeValid(validationResult) ==
    \E i \in 1..Len(validationResult) : validationResult[i].isValid

\* !validationResult.some(p => !p.isValid)
AllValid(validationResult) ==
    ~\E i \in 1..Len(validationResult) : ~validationResult[i].isValid

\* line 161: the condition under which "Cascading Parse Error Detected" is
\* rendered
ShowsCascadingBanner(stringValid, products) ==
    /\ ~stringValid
    /\ \E i \in 1..Len(products) :
           /\ products[i].category # <<>>
           /\ MatchesOptionalFraction(Trim(products[i].category))

Init ==
    /\ prodString = DefaultProdString
    /\ validation = <<>>
    /\ isStringValid = TRUE
    /\ warned = FALSE
    /\ threw = FALSE
    /\ effectPending = TRUE
    /\ raw = Undefined
    /\ attributes = <<>>
    /\ normalized = FALSE

\* useEffect(..., [prodString]), lines 93-97; an error raised by
\* validateProductString leaves the two states as they were
Effect ==
    /\ effectPending
    /\ effectPending' = FALSE
    /\ threw' = validateProductStringThrows(Str(prodString))
    /\ warned' = hasCascadingError(Str(prodString))
    /\ IF threw'
       THEN UNCHANGED <<validation, isStringValid>>
       ELSE /\ validation' = validateProductString(Str(prodString))
            /\ isStringValid' = AllValid(validation')
    /\ UNCHANGED <<prodString, attrVars>>

\* onChange={(e) => setProdString(e.target.value)}, line 132; the effect is
\* scheduled only when the value differs
SetProdString(value) ==
    /\ ~effectPending
    /\ prodString' = value
    /\ effectPending' = (value # prodString)
    /\ UNCHANGED <<validation, isStringValid, warned, threw, attrVars>>

TypeChar ==
    /\ Len(prodString) < MaxLen
    /\ \E c \in Alphabet : SetProdString(Append(prodString, c))

Backspace ==
    /\ prodString # <<>>
    /\ SetProdString(Take(prodString, Len(prodString) - 1))

\* select all and delete
Clear ==
    /\ prodString # <<>>
    /\ SetProdString(<<>>)

\* paste an example into the empty textarea
Paste ==
    /\ prodString = <<>>
    /\ \E e \in Examples : SetProdString(e)

Next == Effect \/ TypeChar \/ Backspace \/ Clear \/ Paste

Spec == Init /\ [][Next]_vars

---------------------------------------------------------------------------
(* normalizeAttributes applied to one attribute field *)

InitAttr ==
    /\ raw \in AttrInputs
    /\ attributes = <<>>
    /\ normalized = FALSE
    /\ prodString = <<>>
    /\ validation = <<>>
    /\ isStringValid = TRUE
    /\ warned = FALSE
    /\ threw = FALSE
    /\ effectPending = FALSE

Normalize ==
    /\ ~normalized
    /\ attributes' = normalizeAttributes(raw)
    /\ normalized' = TRUE
    /\ UNCHANGED <<raw, componentVars>>

NextAttr == Normalize

SpecAttr == InitAttr /\ [][NextAttr]_vars

---------------------------------------------------------------------------
(* Properties.  They are stated on the textarea content and on what the    *)
(* component holds once the effect has run, with the claims' own words for *)
(* fields, numbers and the heuristic.                                      *)

\* the effect has run on the current content
Validated == ~effectPending

\* the comma-separated top-level segments of the content
Segments == Split(prodString, ",")

\* the ';'-separated fields of segment i
Fields(i) == Split(Segments[i], ";")

\* field k of segment i, empty when the segment has fewer fields
FieldText(i, k) == IF k <= Len(Fields(i)) THEN Fields(i)[k] ELSE <<>>

\* t is digits, or digits followed by '.' or ',' followed by zero or more
\* digits
DigitsOptionalFraction(t) ==
    \E n \in 1..Len(t) :
        /\ \A j \in 1..n : IsDigit(t[j])
        /\ \/ n = Len(t)
           \/ /\ t[n + 1] \in {".", ","}
              /\ \A j \in (n + 2)..Len(t) : IsDigit(t[j])

\* some segment of the content has a category that triggers the
\* cascading-error heuristic
HeuristicFires ==
    /\ Trim(prodString) # <<>>
    /\ \E i \in 1..Len(Segments) : DigitsOptionalFraction(Trim(FieldText(i, 1)))

\* f is a non-negative decimal numeral: digits, digits '.' digits, or
\* '.' digits
NonNegativeNumeral(f) ==
    \E n \in 0..Len(f) :
        /\ \A j \in 1..n : IsDigit(f[j])
        /\ \/ n >= 1 /\ n = Len(f)
           \/ /\ n < Len(f)
              /\ f[n + 1] = "."
              /\ \A j \in (n + 2)..Len(f) : IsDigit(f[j])
              /\ n >= 1 \/ Len(f) >= n + 2

\* f parses, as a leading decimal literal, to a non-negative number
ParsesNonNegative(f) ==
    LET x == parseFloat(f) IN ~isNaN(x) /\ GreaterOrEqualZero(x)

\* conditions (a), (b) and (d) of the validity rule for segment i
StructureOk(i) ==
    /\ Len(Fields(i)) >= 4
    /\ Trim(FieldText(i, 2)) # <<>>
    /\ ~HeuristicFires

\* one product per segment, none for a blank content
OnePerSegment ==
    Len(validation) = IF Trim(prodString) = <<>> THEN 0 ELSE Len(Segments)

\* C1 (as stated): once validated, a product is valid exactly when its
\* segment has at least 4 fields, its name is non-empty after trimming, its
\* price field parses to a non-negative number and the heuristic did not fire.
C1_AsClaimed ==
    Validated =>
        \A i \in 1..Len(validation) :
            validation[i].isValid
                <=> (StructureOk(i) /\ ParsesNonNegative(FieldText(i, 4)))

\* C1 (amended): once validated, a product is valid exactly when its segment
\* has at least 4 fields, its name is non-empty after trimming, its price
\* field is empty or parses to a non-negative number, and the heuristic did
\* not fire.
C1_ValidIff ==
    Validated =>
        /\ OnePerSegment
        /\ \A i \in 1..Len(validation) :
               validation[i].isValid
                   <=> /\ StructureOk(i)
                       /\ \/ FieldText(i, 4) = <<>>
                          \/ ParsesNonNegative(FieldText(i, 4))

\* a validated content with a valid product whose price field is empty
C1_Witness ==
    /\ Validated
    /\ \E i \in 1..Len(validation) :
           validation[i].isValid /\ FieldText(i, 4) = <<>>

\* C2 (as stated): once validated, there are as many products as
\* comma-separated segments of the content and the i-th product is the parse
\* of the i-th segment.
C2_AsClaimed ==
    Validated =>
        /\ Len(validation) = Len(Segments)
        /\ \A i \in 1..Len(validation) : validation[i] = parseProduct(Segments[i])

\* C2 (amended): once validated, a content that is empty after trimming has
\* no products; any other has as many products as comma-separated segments,
\* the i-th being the parse of the i-th segment with isValid forced to false
\* when the heuristic fired.
C2_Shape ==
    Validated =>
        /\ OnePerSegment
        /\ \A i \in 1..Len(validation) :
               validation[i] =
                   [parseProduct(Segments[i]) EXCEPT
                       !.isValid = @ /\ ~HeuristicFires]

\* a validated content of several segments, and (separately reachable) a
\* blank one; the first is the case counted here
C2_Witness ==
    /\ Validated
    /\ Len(Segments) >= 3
    /\ Len(validation) = Len(Segments)
    /\ \E i \in 1..Len(validation) : validation[i].isValid

\* the Attribute of one piece split at its first '=': the key is the text
\* before it, the value all the text after it, absent without '='
AttributeAtFirstEquals(piece) ==
    LET i == IndexOf(piece, "=")
    IN IF i = 0
       THEN [key |-> piece, value |-> Undefined]
       ELSE [key |-> Take(piece, i - 1), value |-> Str(Drop(piece, i))]

\* C3: a non-empty attribute field without '|' normalizes to exactly one
\* Attribute, the field split at '='; an empty or absent field to the empty
\* sequence.
C3_SingleEntry ==
    normalized =>
        IF ~raw.def \/ raw.str = <<>>
        THEN attributes = <<>>
        ELSE ~Includes(raw.str, "|")
                 => attributes = <<AttributeAtFirstEquals(raw.str)>>

\* C9: an attribute field containing '|' normalizes to one Attribute per
\* '|'-separated piece, in order, each split at its first '=' only.
C9_FirstEquals ==
    (normalized /\ raw.def /\ Includes(raw.str, "|")) =>
        LET pieces == Split(raw.str, "|")
        IN attributes =
               [i \in 1..Len(pieces) |-> AttributeAtFirstEquals(pieces[i])]

Text_ExampleCategory ==
    <<"E", "x", "a", "m", "p", "l", "e", " ", "c", "a", "t", "e", "g", "o",
      "r", "y">>

Text_ExampleProduct ==
    <<"E", "x", "a", "m", "p", "l", "e", " ", "p", "r", "o", "d", "u", "c",
      "t">>

Text_AnotherCategory ==
    <<"A", "n", "o", "t", "h", "e", "r", " ", "c", "a", "t", "e", "g", "o",
      "r", "y">>

Text_AnotherProduct ==
    <<"A", "n", "o", "t", "h", "e", "r", " ", "p", "r", "o", "d", "u", "c",
      "t">>

\* the fields of a product other than isValid
Shown(p) == [category |-> p.category, item |-> p.item, quantity |-> p.quantity,
             price |-> p.price, events |-> p.events, evars |-> p.evars]

\* C4: the README example yields two products, the first with events exactly
\* event1=4.99 and evars exactly eVar1=Value1, the second without either.
C4_ReadmeExample ==
    (Validated /\ prodString = ReadmeExample) =>
        /\ Len(validation) = 2
        /\ Shown(validation[1]) =
               [category |-> Text_ExampleCategory,
                item     |-> Text_ExampleProduct,
                quantity |-> Finite(FALSE, 1, 0),
                price    |-> Finite(FALSE, 350, -2),
                events   |-> <<[key |-> <<"e", "v", "e", "n", "t", "1">>,
                                value |-> Str(<<"4", ".", "9", "9">>)]>>,
                evars    |-> <<[key |-> <<"e", "V", "a", "r", "1">>,
                                value |-> Str(<<"V", "a", "l", "u", "e", "1">>)]>>]
        /\ Shown(validation[2]) =
               [category |-> Text_AnotherCategory,
                item     |-> Text_AnotherProduct,
                quantity |-> Finite(FALSE, 2, 0),
                price    |-> Finite(FALSE, 599, -2),
                events   |-> <<>>,
                evars    |-> <<>>]

\* segment i has 4 or more fields, a name that is non-empty after trimming
\* and a price field that is a non-negative number
WellFormedSegment(i) ==
    /\ Len(Fields(i)) >= 4
    /\ Trim(FieldText(i, 2)) # <<>>
    /\ NonNegativeNumeral(FieldText(i, 4))

\* C5 (as stated): once validated, the product of every well-formed segment
\* is valid.
C5_AsClaimed ==
    Validated =>
        \A i \in 1..Len(Segments) :
            WellFormedSegment(i) => (i <= Len(validation) /\ validation[i].isValid)

\* C5 (amended): once validated, the product of every well-formed segment is
\* valid provided no segment of the content triggers the heuristic.
C5_ValidSegment ==
    (Validated /\ ~HeuristicFires) =>
        \A i \in 1..Len(Segments) :
            WellFormedSegment(i) => (i <= Len(validation) /\ validation[i].isValid)

\* a validated content with a well-formed segment and no heuristic trigger
C5_Witness ==
    /\ Validated
    /\ ~HeuristicFires
    /\ \E i \in 1..Len(Segments) : WellFormedSegment(i) /\ validation[i].isValid

\* segment k ends in a 4th field of digits and segment k + 1 starts with a
\* field of digits: a price written digits ',' digits that end the field
CommaPriceAt(k) ==
    /\ k < Len(Segments)
    /\ Len(Fields(k)) = 4
    /\ FieldText(k, 4) # <<>>
    /\ \A j \in 1..Len(FieldText(k, 4)) : IsDigit(FieldText(k, 4)[j])
    /\ FieldText(k + 1, 1) # <<>>
    /\ \A j \in 1..Len(FieldText(k + 1, 1)) : IsDigit(FieldText(k + 1, 1)[j])

\* C6: once validated, a content with a comma-decimal price has the
\* fractional digits as the category of the following product, the detector
\* has fired, every product is invalid and so is the whole string.
C6_CommaPrice ==
    Validated =>
        \A k \in 1..Len(Segments) :
            CommaPriceAt(k) =>
                /\ Len(validation) = Len(Segments)
                /\ validation[k + 1].category = FieldText(k + 1, 1)
                /\ warned
                /\ \A i \in 1..Len(validation) : ~validation[i].isValid
                /\ ~isStringValid

\* a validated content with a comma-decimal price whose integer part alone
\* would have made a valid product
C6_Witness ==
    /\ Validated
    /\ \E k \in 1..Len(Segments) :
           CommaPriceAt(k) /\ Trim(FieldText(k, 2)) # <<>>
    /\ ~isStringValid

\* C7: once validated, an empty content has no products and is valid, and
\* whole-string validity is the conjunction of the products' isValid; a
\* non-string input has no products either.
C7_EmptyAndConjunction ==
    Validated =>
        /\ prodString = <<>> => (validation = <<>> /\ isStringValid)
        /\ isStringValid <=> \A i \in 1..Len(validation) : validation[i].isValid
        /\ validateProductString(Undefined) = <<>>
        /\ ~validateProductStringThrows(Undefined)

\* the empty content, validated
C7_Witness == Validated /\ prodString = <<>> /\ validation = <<>>

\* the text of the first six fields of a segment
RECURSIVE FirstFields(_, _)
FirstFields(seg, n) ==
    LET i == IndexOf(seg, ";")
    IN IF i = 0 THEN seg
       ELSE IF n = 1 THEN Take(seg, i - 1)
       ELSE Take(seg, i) \o FirstFields(Drop(seg, i), n - 1)

\* C8: validation never raises; once validated there is one product per
\* segment, a segment of fewer than 4 fields gives an invalid product with
\* defaulted fields, and fields beyond the 6th change nothing.
C8_Total ==
    /\ ~threw
    /\ Validated =>
           /\ OnePerSegment
           /\ \A i \in 1..Len(validation) :
                  /\ Len(Fields(i)) < 4 =>
                         /\ ~validation[i].isValid
                         /\ validation[i].price = Zero
                         /\ validation[i].events = <<>>
                         /\ validation[i].evars = <<>>
                         /\ Len(Fields(i)) < 3 => validation[i].quantity = Zero
                         /\ Len(Fields(i)) < 2 => validation[i].item = <<>>
                  /\ Len(Fields(i)) > 6 =>
                         Shown(validation[i]) =
                             Shown(parseProduct(FirstFields(Segments[i], 6)))

\* a validated content with a segment of more than 6 fields and one of
\* fewer than 4
C8_Witness ==
    /\ Validated
    /\ Len(validation) = Len(Segments)
    /\ \E i \in 1..Len(validation) : Len(Fields(i)) > 6
    /\ \E i \in 1..Len(validation) : Len(Fields(i)) < 4

\* C10: once validated, the cascading banner is shown exactly when the
\* detector fired; the empty-name content does not show it.
C10_Banner ==
    Validated =>
        /\ ShowsCascadingBanner(isStringValid, validation) <=> warned
        /\ prodString = EmptyName =>
               /\ ~isStringValid
               /\ ~ShowsCascadingBanner(isStringValid, validation)

\* a validated content for which the detector fired and the banner is shown
C10_Witness ==
    /\ Validated
    /\ warned
    /\ ShowsCascadingBanner(isStringValid, validation)

====
